---- MODULE Spec2Model ----
(***************************************************************************)
(* google_sheets_driver: the positional-entity repository (orm/mod.rs),    *)
(* the row/cell codec (mapper/sheet_row.rs, mapper/sheet_cell.rs) and the  *)
(* A1 addressing types (types/...) it is built on.                         *)
(*                                                                         *)
(* Text (Rust String / &str) is a sequence of one-character strings, so    *)
(* that parsing and formatting are computed, character by character, the   *)
(* way the code computes them.                                             *)
(***************************************************************************)
EXTENDS Integers, Sequences, FiniteSets, TLC

\* ------------------------------------------------------------------ bounds
\* Callers sharing one driver handle in SpecShared.
NumCallers == 2
\* Largest `rows` argument of find_in_range / insert.
MaxRows == 2
\* Largest number of data rows in a get-range response.
MaxRespRows == 2
MaxRank == 710
MaxDelta == 3
MaxCellRow == 2
MaxIterRow == 3
MaxYield == 12

\* --------------------------------------------------------- Result values
Ok(v) == [tag |-> "Ok", v |-> v]
Err(e) == [tag |-> "Err", e |-> e]
Panic(m) == [tag |-> "Panic", msg |-> m]
IsOk(r) == r.tag = "Ok"
IsErr(r) == r.tag = "Err"
IsPanic(r) == r.tag = "Panic"
\* Option<T>
None == [some |-> FALSE]
Some(v) == [some |-> TRUE, v |-> v]

\* ------------------------------------------------------------ characters
UpperSeq == << "A", "B", "C", "D", "E", "F", "G", "H", "I", "J", "K", "L", "M",
               "N", "O", "P", "Q", "R", "S", "T", "U", "V", "W", "X", "Y", "Z" >>
LowerSeq == << "a", "b", "c", "d", "e", "f", "g", "h", "i", "j", "k", "l", "m",
               "n", "o", "p", "q", "r", "s", "t", "u", "v", "w", "x", "y", "z" >>
DigitSeq == << "0", "1", "2", "3", "4", "5", "6", "7", "8", "9" >>

InSeq(s, c) == \E i \in 1..Len(s) : s[i] = c
IndexOf(s, c) == CHOOSE i \in 1..Len(s) : s[i] = c

\* char::is_alphabetic, char::is_numeric on the characters the model uses
is_alphabetic(c) == InSeq(UpperSeq, c) \/ InSeq(LowerSeq, c)
is_numeric(c) == InSeq(DigitSeq, c)
IsAsciiDigit(c) == InSeq(DigitSeq, c)
DigitVal(c) == IndexOf(DigitSeq, c) - 1

\* `c as u32` for a letter: 'A' = 65, 'a' = 97
CharCode(c) ==
    IF InSeq(UpperSeq, c) THEN 64 + IndexOf(UpperSeq, c)
    ELSE IF InSeq(LowerSeq, c) THEN 96 + IndexOf(LowerSeq, c)
    ELSE 47 + IndexOf(DigitSeq, c)

\* ------------------------------------------------------------------ text
RECURSIVE NatToText(_)
\* Display of an unsigned integer (format!("{}", n))
NatToText(n) ==
    IF n < 10 THEN << DigitSeq[n + 1] >>
    ELSE Append(NatToText(n \div 10), DigitSeq[(n % 10) + 1])

RECURSIVE SplitFrom(_, _, _, _)
SplitFrom(s, sep, i, cur) ==
    IF i > Len(s) THEN << cur >>
    ELSE IF s[i] = sep THEN << cur >> \o SplitFrom(s, sep, i + 1, << >>)
    ELSE SplitFrom(s, sep, i + 1, Append(cur, s[i]))
\* str::split(sep).collect::<Vec<_>>()
Split(s, sep) == SplitFrom(s, sep, 1, << >>)

RECURSIVE TrimStart(_, _)
TrimStart(s, c) == IF Len(s) > 0 /\ s[1] = c THEN TrimStart(Tail(s), c) ELSE s
RECURSIVE TrimEnd(_, _)
TrimEnd(s, c) ==
    IF Len(s) > 0 /\ s[Len(s)] = c THEN TrimEnd(SubSeq(s, 1, Len(s) - 1), c) ELSE s
\* str::trim_matches(c)
trim_matches(s, c) == TrimEnd(TrimStart(s, c), c)

\* ------------------------------------------------- column codec, Letters
RECURSIVE string_to_dec_from(_, _, _)
string_to_dec_from(string, i, result) ==
    IF i > Len(string) THEN result
    ELSE string_to_dec_from(string, i + 1,
                            result * 26 + (CharCode(string[i]) - CharCode("A") + 1))
\* Letters to rank, base 26 with digits 1..26, most significant first
string_to_dec_as_base26(string) == string_to_dec_from(string, 1, 0)

\* A u32 of 2^31 or more is held as the integer with the same 32 bits read as
\* i32, that is value - 2^32: a number below zero stands for such a value.
\* 2^32 = 26 * U32Div26 + U32Rem26
U32Div26 == 165191049
U32Rem26 == 22

RECURSIVE dec_to_string_rev(_, _)
dec_to_string_rev(dec_number, result) ==
    IF dec_number < 0
    THEN dec_to_string_rev(U32Div26 + ((dec_number + U32Rem26 - 1) \div 26),
                           Append(result, UpperSeq[((dec_number + U32Rem26 - 1) % 26) + 1]))
    ELSE IF dec_number > 0
    THEN dec_to_string_rev((dec_number - 1) \div 26,
                           Append(result, UpperSeq[((dec_number - 1) % 26) + 1]))
    ELSE result
Reverse(s) == [i \in 1..Len(s) |-> s[Len(s) + 1 - i]]
\* mutant of dec_to_string_as_base26: the digits are left least significant first
dec_to_string_unreversed(dec_number) == dec_to_string_rev(dec_number, << >>)
\* rank to Letters; the empty string for rank 0
dec_to_string_as_base26(dec_number) == Reverse(dec_to_string_rev(dec_number, << >>))

\* Letters::new: asserts non-empty and all alphabetic
Letters_new(value) ==
    IF Len(value) = 0 THEN Panic("Expected non-empty letters")
    ELSE IF \E i \in 1..Len(value) : ~is_alphabetic(value[i])
         THEN Panic("Invalid cell column letters")
    ELSE Ok(value)

\* impl Add<u32> for Letters
Letters_add(self, delta) ==
    Letters_new(dec_to_string_as_base26(string_to_dec_as_base26(self) + delta))

\* the build checks integer overflow (the debug profile) or wraps (release)
VARIABLE overflow_checks

\* impl Sub<u32> for Letters: the u32 subtraction below zero panics when the
\* build checks overflow and wraps otherwise
Letters_sub(self, delta) ==
    LET dec_number == string_to_dec_as_base26(self)
        result == dec_number - delta
    IN  IF result < 0 /\ overflow_checks
        THEN Panic("attempt to subtract with overflow")
        ELSE Letters_new(dec_to_string_as_base26(result))

RECURSIVE sub_letters_from(_, _, _, _, _)
\* the loop of &Letters - &Letters: k-th letters from the end, while both exist
sub_letters_from(self, other, k, result, carry) ==
    IF k > Len(self) \/ k > Len(other) THEN result
    ELSE LET letter == CharCode(self[Len(self) + 1 - k]) - CharCode("A")
             other_letter == CharCode(other[Len(other) + 1 - k]) - CharCode("A")
             value == letter - other_letter - carry
         IN  IF value < 0
             THEN sub_letters_from(self, other, k + 1, result + 26 + value, 1)
             ELSE sub_letters_from(self, other, k + 1, result + value, 0)

\* impl Sub<&Letters> for &Letters
Letters_sub_letters(self, other) == sub_letters_from(self, other, 1, 0, 0)

\* String::to_uppercase on the letters of the model
to_uppercase(value) ==
    [i \in 1..Len(value) |->
        IF InSeq(LowerSeq, value[i]) THEN UpperSeq[IndexOf(LowerSeq, value[i])] ELSE value[i]]

\* impl TryFrom<String> for Letters
Letters_try_from(value) ==
    IF Len(value) = 0 THEN Err([kind |-> "EmptyString"])
    ELSE IF \E i \in 1..Len(value) : ~is_alphabetic(value[i])
         THEN Err([kind |-> "NonAlphanumeric", input |-> value])
    ELSE Letters_new(to_uppercase(value))

\* u32::partial_cmp
cmp_u32(a, b) == IF a < b THEN "Less" ELSE IF a = b THEN "Equal" ELSE "Greater"

\* impl PartialOrd for Letters: the ranks are compared
Letters_partial_cmp(self, other) ==
    cmp_u32(string_to_dec_as_base26(self), string_to_dec_as_base26(other))

\* ---------------------------------------------------------------- cells
A1CellId_new(letter, number) == [col |-> letter, row |-> number]

\* A1CellId::from_primitives: Letters::new(col), then NonZero::new(row).expect
A1CellId_from_primitives(col, row) ==
    LET l == Letters_new(col) IN
    IF IsPanic(l) THEN l
    ELSE IF row = 0 THEN Panic("Expected a non-zero cell row number")
    ELSE Ok(A1CellId_new(l.v, row))

\* mutant of A1CellId_add: coordinates are summed as offsets from A1, less one
A1CellId_add_less_one(self, other) ==
    LET number == self.row + other.row - 1
        letter == Letters_add(self.col, string_to_dec_as_base26(other.col) - 1)
    IN  IF IsPanic(letter) THEN letter
        ELSE IF number = 0 THEN Panic("Expected a non-zero cell row number")
        ELSE Ok(A1CellId_new(letter.v, number))

\* impl Add for A1CellId: rows are summed, the other column's rank is added
A1CellId_add(self, other) ==
    LET number == self.row + other.row
        letter == Letters_add(self.col, string_to_dec_as_base26(other.col))
    IN  IF IsPanic(letter) THEN letter
        ELSE IF number = 0 THEN Panic("Expected a non-zero cell row number")
        ELSE Ok(A1CellId_new(letter.v, number))

\* impl PartialOrd for A1CellId: y_ord.then(x_ord), the row first
A1CellId_partial_cmp(self, other) ==
    LET x_ord == Letters_partial_cmp(self.col, other.col)
        y_ord == cmp_u32(self.row, other.row)
    IN  IF y_ord # "Equal" THEN y_ord ELSE x_ord

\* number as u32: the same 32 bits
as_u32(number) == number

\* A1CellId::delta
A1CellId_delta(self, columns, rows) ==
    LET number == self.row + rows
        letter == IF columns < 0 THEN Letters_sub(self.col, 0 - columns)
                  ELSE Letters_add(self.col, columns)
    IN  IF IsPanic(letter) THEN letter
        ELSE IF number = 0 THEN Panic("Expected a non-zero cell row number")
        ELSE Ok(A1CellId_new(letter.v, as_u32(number)))

\* NumCellId::from_primitives
NumCellId_from_primitives(col, row) == [col |-> col, row |-> row]

\* impl From<A1CellId> for NumCellId
NumCellId_from(value) ==
    NumCellId_from_primitives(string_to_dec_as_base26(value.col) - 1, value.row - 1)

\* u32::MAX, held as the integer with the same bits
U32Max == -1

\* impl From<NumCellId> for A1CellId: value.col + 1 and value.row + 1 are u32
\* additions, which panic at u32::MAX when the build checks overflow and wrap
\* to 0 otherwise
A1CellId_from(value) ==
    IF (value.col = U32Max \/ value.row = U32Max) /\ overflow_checks
    THEN Panic("attempt to add with overflow")
    ELSE A1CellId_from_primitives(dec_to_string_as_base26(value.col + 1), value.row + 1)

\* A1CellId::to_string
A1CellId_to_string(self) == self.col \o NatToText(self.row)

SheetA1CellId_new(sheet_name, cell) == [sheet_name |-> sheet_name, cell |-> cell]

\* SheetA1CellId::from_primitives
SheetA1CellId_from_primitives(name, col, row) ==
    LET c == A1CellId_from_primitives(col, row) IN
    IF IsPanic(c) THEN c ELSE Ok(SheetA1CellId_new(name, c.v))

RECURSIVE ParseDigits(_, _, _)
ParseDigits(s, i, acc) ==
    IF i > Len(s) THEN acc ELSE ParseDigits(s, i + 1, acc * 10 + DigitVal(s[i]))

RECURSIVE SelectChars(_, _, _)
\* the characters of `value` up to position n that are alphabetic (alpha) or not
SelectChars(value, n, alpha) ==
    IF n = 0 THEN << >>
    ELSE IF is_alphabetic(value[n]) = alpha
         THEN Append(SelectChars(value, n - 1, alpha), value[n])
         ELSE SelectChars(value, n - 1, alpha)

\* impl TryFrom<&str> for A1CellId
A1CellId_try_from(value) ==
    LET letter == SelectChars(value, Len(value), TRUE)
        number == SelectChars(value, Len(value), FALSE)
    IN  IF \E i \in 1..Len(value) : ~is_alphabetic(value[i]) /\ ~is_numeric(value[i])
        THEN Err([kind |-> "InvalidCellFormat", input |-> value])
        ELSE IF Len(letter) = 0 \/ Len(number) = 0
        THEN Err([kind |-> "InvalidCellFormat", input |-> value])
        ELSE IF ParseDigits(number, 1, 0) = 0
        THEN Panic("called Result::unwrap() on an Err value")
        ELSE Ok(A1CellId_new(Letters_new(letter).v, ParseDigits(number, 1, 0)))

\* A1CellId::from_raw
A1CellId_from_raw(value) == A1CellId_try_from(value)

\* --------------------------------------------------------------- ranges
A1Range_new(from, to) == [start |-> from, end |-> to]
SheetA1Range_new(page, range) == [sheet |-> page, range |-> range]

\* A1Range::iter
A1Range_iter(self) == [range |-> self, current |-> self.start]

\* A1RangeIterator::next: the item returned and the iterator afterwards
A1RangeIterator_next(self) ==
    IF A1CellId_partial_cmp(self.current, self.range.end) = "Greater"
    THEN [item |-> None, it |-> self]
    ELSE LET result == self.current IN
         IF self.current.col = self.range.end.col
         THEN [item |-> Some(result),
               it |-> [self EXCEPT !.current =
                          A1CellId_new(self.range.start.col, self.current.row + 1)]]
         ELSE [item |-> Some(result),
               it |-> [self EXCEPT !.current = A1CellId_delta(self.current, 1, 0).v]]

\* A1Range::into_zero_base_range
A1Range_into_zero_base_range(self) ==
    LET delta_numbers == 1 - self.start.row
        minus_letters == 0 - Letters_sub_letters(self.start.col, << "A" >>)
        end == A1CellId_delta(self.end, minus_letters, delta_numbers)
    IN  IF IsPanic(end) THEN end
        ELSE Ok(A1Range_new(A1CellId_from_primitives(<< "A" >>, 1).v, end.v))

\* A1Range::to_string
A1Range_to_string(self) ==
    A1CellId_to_string(self.start) \o << ":" >> \o A1CellId_to_string(self.end)

\* impl Display for SheetA1Range
SheetA1Range_to_string(self) == self.sheet \o << "!" >> \o A1Range_to_string(self.range)

\* SheetA1Range::start
SheetA1Range_start(self) == SheetA1CellId_new(self.sheet, self.range.start)

\* A1Range::from_raw
A1Range_from_raw(value) ==
    LET parts == Split(value, ":") IN
    IF Len(parts) # 2 THEN Err([kind |-> "InvalidRangeFormat", input |-> value])
    ELSE LET from == A1CellId_from_raw(parts[1]) IN
         IF IsPanic(from) THEN from
         ELSE IF IsErr(from) THEN Err([kind |-> "CellParsingError", input |-> value])
         ELSE LET to == A1CellId_from_raw(parts[2]) IN
              IF IsPanic(to) THEN to
              ELSE IF IsErr(to) THEN Err([kind |-> "CellParsingError", input |-> value])
              ELSE Ok(A1Range_new(from.v, to.v))

\* SheetA1Range::from_raw
SheetA1Range_from_raw(value) ==
    LET parts == Split(value, "!") IN
    IF Len(parts) # 2 THEN Err([kind |-> "InvalidRangeFormat", input |-> value])
    ELSE LET page == trim_matches(parts[1], "'")
             range == A1Range_from_raw(parts[2])
         IN  IF IsOk(range) THEN Ok(SheetA1Range_new(page, range.v)) ELSE range

\* SheetA1CellId::into_range
SheetA1CellId_into_range(self, end_col, end_row) ==
    LET e == A1CellId_from_primitives(end_col, end_row) IN
    IF IsPanic(e) THEN e
    ELSE Ok(SheetA1Range_new(self.sheet_name, A1Range_new(self.cell, e.v)))

\* ------------------------------------------------------------ cell codec
\* serde_json::Value: a JSON string, or a value that is not a string
StringValue(s) == [kind |-> "String", s |-> s]
NumberValue(n) == [kind |-> "Number", n |-> n]

\* std::any::type_name::<T>() and what the name starts with
T_i8 == [name |-> "i8", generic |-> ""]
T_String == [name |-> "alloc::string::String", generic |-> ""]
T_Option_i8 == [name |-> "core::option::Option<i8>", generic |-> "core::option::Option<",
                inner |-> T_i8]
type_name(T) == T.name
starts_with_option(T) == T.generic = "core::option::Option<"

\* typed scalars
IntOf(n) == [t |-> "int", n |-> n]
StrOf(s) == [t |-> "str", s |-> s]
AbsentOf == [t |-> "opt", some |-> FALSE]
PresentOf(x) == [t |-> "opt", some |-> TRUE, x |-> x]

I8Min == -128
I8Max == 127

\* str::parse::<i8>(): an optional sign, then one or more ASCII digits, in range
parse_i8(cell) ==
    LET signed == Len(cell) > 0 /\ cell[1] \in {"-", "+"}
        digits == IF signed THEN Tail(cell) ELSE cell
        mag == ParseDigits(digits, 1, 0)
        val == IF signed /\ cell[1] = "-" THEN 0 - mag ELSE mag
    IN  IF Len(digits) = 0 \/ (\E i \in 1..Len(digits) : ~IsAsciiDigit(digits[i]))
        THEN Err("CellParsingError")
        ELSE IF val < I8Min \/ val > I8Max THEN Err("CellParsingError")
        ELSE Ok(IntOf(val))

\* SheetRawCellSerde::deserialize for the scalar types
SheetRawCellSerde_deserialize(T, cell) ==
    IF T.name = "i8" THEN parse_i8(cell) ELSE Ok(StrOf(cell))

\* impl CellSerde for Option<T>: Ok(T::deserialize(cell).ok())
Option_deserialize(T, cell) ==
    LET r == SheetRawCellSerde_deserialize(T.inner, cell) IN
    IF IsOk(r) THEN Ok(PresentOf(r.v)) ELSE Ok(AbsentOf)

\* ------------------------------------------------------------- row codec
\* Vec::get(cell_id), cell_id 0-based
row_get(row, cell_id) == IF cell_id < Len(row) THEN Some(row[cell_id + 1]) ELSE None

\* mutant of try_unwrap_value: a missing cell is read as an empty one
try_unwrap_value_default(value, row, field_name) ==
    IF value.some THEN Ok(value.v) ELSE Ok(StringValue(<< "0" >>))

\* ParseOptionalValue::try_unwrap_value
try_unwrap_value(value, row, field_name) ==
    IF value.some THEN Ok(value.v)
    ELSE Err([kind |-> "FieldIsMissing", field |-> field_name, row |-> row])

\* mutant of parse_optional_value: a cell that fails to parse gives the default
parse_optional_value_or_default(self, row, field_name, T) ==
    LET result == try_unwrap_value(self, row, field_name) IN
    IF starts_with_option(T) THEN Ok(AbsentOf)
    ELSE IF IsErr(result) THEN result
    ELSE IF result.v.kind # "String"
         THEN Err([kind |-> "JsonValueToStringError", value |-> result.v])
    ELSE LET d == SheetRawCellSerde_deserialize(T, result.v.s)
         IN  IF IsOk(d) THEN d ELSE Ok(IntOf(0))

\* impl ParseOptionalValue for Option<&Value>
parse_optional_value(self, row, field_name, T) ==
    LET result == try_unwrap_value(self, row, field_name) IN
    IF starts_with_option(T) THEN Ok(AbsentOf)
    ELSE IF IsErr(result) THEN result
    ELSE IF result.v.kind # "String"
         THEN Err([kind |-> "JsonValueToStringError", value |-> result.v])
    ELSE LET string == result.v.s
             d == SheetRawCellSerde_deserialize(T, string)
         IN  IF IsOk(d) THEN d
             ELSE Err([kind |-> "CellDeserializationError", column_name |-> field_name,
                       type_name |-> type_name(T), input |-> string])

\* SheetRowExt::parse_cell
parse_cell(row, cell_id, column_name, T) ==
    parse_optional_value(row_get(row, cell_id), row, column_name, T)

\* record types: the fields in column order, and EntityEssentials::entity_width
Counter == [fields |-> << [name |-> "n", type |-> T_i8] >>, width |-> 1]
User == [fields |-> << [name |-> "id", type |-> T_i8],
                       [name |-> "name", type |-> T_String] >>, width |-> 2]
Profile == [fields |-> << [name |-> "id", type |-> T_i8],
                          [name |-> "age", type |-> T_Option_i8] >>, width |-> 2]
Pair == [fields |-> << [name |-> "a", type |-> T_i8],
                       [name |-> "b", type |-> T_i8] >>, width |-> 2]
EntityTypes == {Counter, User, Profile, Pair}
entity_width(E) == E.width

RECURSIVE deserialize_from(_, _, _, _)
deserialize_from(E, row, i, acc) ==
    IF i > Len(E.fields) THEN Ok(acc)
    ELSE LET r == parse_cell(row, i - 1, E.fields[i].name, E.fields[i].type) IN
         IF IsOk(r) THEN deserialize_from(E, row, i + 1, Append(acc, r.v)) ELSE r
\* SheetRowSerde::deserialize: row.parse_cell(i, name)? for each field in turn
SheetRowSerde_deserialize(E, row) == deserialize_from(E, row, 1, << >>)

IntToText(n) == IF n < 0 THEN << "-" >> \o NatToText(0 - n) ELSE NatToText(n)
ScalarToText(x) ==
    IF x.t = "int" THEN IntToText(x.n)
    ELSE IF x.t = "str" THEN x.s
    ELSE IF x.some THEN IntToText(x.x.n) ELSE << >>
\* SheetRowSerde::serialize: one Value::String per field, in column order
SheetRowSerde_serialize(data) == [i \in 1..Len(data) |-> StringValue(ScalarToText(data[i]))]

\* ------------------------------------------------------------ repository
\* RepositoryError
DriverError == [kind |-> "DriverError"]
InvalidArgument(m) == [kind |-> "InvalidArgument", msg |-> m]
ParsingError(src) == [kind |-> "ParsingError", source |-> src]
UnexpectedResponse(what, avr) == [kind |-> "UnexpectedResponse", what |-> what, response |-> avr]

\* Entity<E>
Entity(position, data) == [position |-> position, data |-> data]

\* Repository::convert_into_range
convert_into_range(start, rows, width) ==
    LET plus == Letters_add(start.cell.col, width)
        col == IF IsPanic(plus) THEN plus ELSE Letters_sub(plus.v, 2)
    IN  IF IsPanic(col) THEN col
        ELSE IF rows = 0 THEN Panic("Expected to have rows to be at least 1")
        ELSE LET offset == A1CellId_new(col.v, rows)
                 end_cell == A1CellId_add(start.cell, offset)
             IN  IF IsPanic(end_cell) THEN end_cell
                 ELSE Ok(SheetA1Range_new(start.sheet_name,
                                          A1Range_new(start.cell, end_cell.v)))

\* Repository::update, lines 81-83: the range written
update_range(entity, E) ==
    LET new_row == entity.position.cell.row + 1
        end_col == Letters_add(entity.position.cell.col, entity_width(E))
    IN  IF IsPanic(end_col) THEN end_col
        ELSE SheetA1CellId_into_range(entity.position, end_col.v, new_row)

\* mutant of extract_range_from_filters: only an empty filter list is refused
extract_range_from_first_filter(self) ==
    IF ~self.data_filters.some
    THEN Err(InvalidArgument("MatchedValueRange doesn't have data filters"))
    ELSE LET filters == self.data_filters.v IN
         IF Len(filters) = 0
         THEN Err(InvalidArgument("MatchedValueRange doesn't have exactly one filter"))
         ELSE LET filter == filters[1] IN
              IF ~filter.a1_range.some
              THEN Err(InvalidArgument("Data filter doesn't have A1 range"))
              ELSE LET sr == SheetA1Range_from_raw(filter.a1_range.v) IN
                   IF IsErr(sr) THEN Err(InvalidArgument(sr.e.kind)) ELSE sr

\* PositionalParsing::extract_range_from_filters
extract_range_from_filters(self) ==
    IF ~self.data_filters.some
    THEN Err(InvalidArgument("MatchedValueRange doesn't have data filters"))
    ELSE LET filters == self.data_filters.v IN
         IF Len(filters) # 1
         THEN Err(InvalidArgument("MatchedValueRange doesn't have exactly one filter"))
         ELSE LET filter == filters[1] IN
              IF ~filter.a1_range.some
              THEN Err(InvalidArgument("Data filter doesn't have A1 range"))
              ELSE LET sr == SheetA1Range_from_raw(filter.a1_range.v) IN
                   IF IsErr(sr) THEN Err(InvalidArgument(sr.e.kind)) ELSE sr

RECURSIVE collect_entities_one_based(_, _, _, _, _)
\* mutant of collect_entities: the row offset counted from 1
collect_entities_one_based(E, sr, data, i, acc) ==
    IF i >= Len(data) THEN Ok(acc)
    ELSE LET d == SheetRowSerde_deserialize(E, data[i + 1]) IN
         IF IsErr(d) THEN Err(ParsingError(d.e))
         ELSE LET position == SheetA1CellId_from_primitives(
                                  sr.sheet, sr.range.start.col, sr.range.start.row + i + 1)
              IN  IF IsPanic(position) THEN position
                  ELSE collect_entities_one_based(E, sr, data, i + 1,
                                                  Append(acc, Entity(position.v, d.v)))

RECURSIVE collect_entities_skipping_failures(_, _, _, _, _)
\* mutant of collect_entities: a row that does not decode is left out
collect_entities_skipping_failures(E, sr, data, i, acc) ==
    IF i >= Len(data) THEN Ok(acc)
    ELSE LET d == SheetRowSerde_deserialize(E, data[i + 1]) IN
         IF IsErr(d) THEN collect_entities_skipping_failures(E, sr, data, i + 1, acc)
         ELSE LET position == SheetA1CellId_from_primitives(
                                  sr.sheet, sr.range.start.col, sr.range.start.row + i)
              IN  IF IsPanic(position) THEN position
                  ELSE collect_entities_skipping_failures(E, sr, data, i + 1,
                                                          Append(acc, Entity(position.v, d.v)))

RECURSIVE collect_entities(_, _, _, _, _)
\* lines 186-202: rows decoded in order, the first failure ends the collect
collect_entities(E, sr, data, i, acc) ==
    IF i >= Len(data) THEN Ok(acc)
    ELSE LET d == SheetRowSerde_deserialize(E, data[i + 1]) IN
         IF IsErr(d) THEN Err(ParsingError(d.e))
         ELSE LET position == SheetA1CellId_from_primitives(
                                  sr.sheet, sr.range.start.col, sr.range.start.row + i)
              IN  IF IsPanic(position) THEN position
                  ELSE collect_entities(E, sr, data, i + 1,
                                        Append(acc, Entity(position.v, d.v)))

\* PositionalParsing::parse_positionally
parse_positionally(E, self) ==
    LET sr == extract_range_from_filters(self) IN
    IF ~IsOk(sr) THEN sr
    ELSE IF ~self.value_range.some THEN Panic("Expected to get range")
    ELSE LET data == IF self.value_range.v.values.some
                     THEN self.value_range.v.values.v ELSE << >>
         IN  collect_entities(E, sr.v, data, 0, << >>)

\* SpreadSheetDriver::try_get_range on what the values API returned
try_get_range(api) ==
    IF api.tag = "Err" THEN Err("ApiError")
    ELSE IF ~api.v.value_ranges.some THEN Err("RangeNotFound")
    ELSE IF Len(api.v.value_ranges.v) = 0 THEN Panic("index out of bounds")
    ELSE Ok(api.v.value_ranges.v[1])

\* Repository::find_in_range, lines 42-50: after the service call returned
find_in_range_result(E, api) ==
    LET matched_value_range == try_get_range(api) IN
    IF IsPanic(matched_value_range) THEN matched_value_range
    ELSE IF IsErr(matched_value_range) THEN Err(DriverError)
    ELSE parse_positionally(E, matched_value_range.v)

\* Repository::update, lines 95-101: after the service call returned
update_result(api) == IF api.tag = "Err" THEN Err(DriverError) ELSE Ok(<< >>)

\* mutant of insert_result: without an echoed range the entity is placed at A1
insert_result_default_position(entity_data, api) ==
    IF api.tag = "Err" THEN Err(DriverError)
    ELSE LET avr == api.v IN
         IF ~avr.updates.some
         THEN Err(UnexpectedResponse("AppendValuesResponse doesn't have 'updates'", avr))
         ELSE IF ~avr.updates.v.updated_range.some
         THEN Ok(Entity(SheetA1CellId_new(<< >>, A1CellId_new(<< "A" >>, 1)), entity_data))
         ELSE LET position == SheetA1Range_from_raw(avr.updates.v.updated_range.v) IN
              IF IsPanic(position) THEN position
              ELSE IF IsErr(position) THEN Err(ParsingError(position.e))
              ELSE Ok(Entity(SheetA1Range_start(position.v), entity_data))

\* Repository::insert, lines 127-155: after the service call returned
insert_result(entity_data, api) ==
    IF api.tag = "Err" THEN Err(DriverError)
    ELSE LET avr == api.v IN
         IF ~avr.updates.some
         THEN Err(UnexpectedResponse("AppendValuesResponse doesn't have 'updates'", avr))
         ELSE IF ~avr.updates.v.updated_range.some
         THEN Err(UnexpectedResponse("UpdateValuesResponse doesn't have 'updated_range'", avr))
         ELSE LET position == SheetA1Range_from_raw(avr.updates.v.updated_range.v) IN
              IF IsPanic(position) THEN position
              ELSE IF IsErr(position) THEN Err(ParsingError(position.e))
              ELSE Ok(Entity(SheetA1Range_start(position.v), entity_data))

\* ---------------------------------------------------------------- inputs
SeqsUpTo(S, n) == UNION {[1..k -> S] : k \in 0..n}

Users == << "u", "s", "e", "r", "s" >>
StartCells ==
    { SheetA1CellId_new(Users, A1CellId_new(<< "A" >>, 1)),
      SheetA1CellId_new(Users, A1CellId_new(<< "B" >>, 2)),
      SheetA1CellId_new(Users, A1CellId_new(<< "Z" >>, 3)) }

\* ranges the service echoes, with the anchor each one names
EchoFixtures ==
    { [text |-> Users \o << "!", "A", "1", ":", "B", "3" >>,
       sheet |-> Users, col |-> << "A" >>, row |-> 1],
      [text |-> << "'", "a", " ", "b", "'", "!", "B", "2", ":", "C", "3" >>,
       sheet |-> << "a", " ", "b" >>, col |-> << "B" >>, row |-> 2],
      [text |-> Users \o << "!", "A", "A", "1", "0", ":", "A", "B", "1", "1" >>,
       sheet |-> Users, col |-> << "A", "A" >>, row |-> 10] }
\* echoed ranges that do not parse: no ':', no '!', a cell without a row, row 0
BadEchoTexts ==
    { Users \o << "!", "A", "1" >>,
      << "A", "1", ":", "B", "3" >>,
      Users \o << "!", "A", ":", "B", "3" >>,
      Users \o << "!", "A", "0", ":", "B", "1" >> }
EchoTexts == {f.text : f \in EchoFixtures} \cup BadEchoTexts

\* raw rows the service returns
RowFixtures ==
    { << StringValue(<< "1" >>), StringValue(<< "J", "o", "e" >>) >>,
      << StringValue(<< "3" >>), StringValue(<< "5" >>) >>,
      << StringValue(<< "2" >>) >>,
      << StringValue(<< "x" >>), StringValue(<< "J", "o" >>) >>,
      << StringValue(<< "2", "0", "0" >>), StringValue(<< "-", "4" >>) >>,
      << NumberValue(1), StringValue(<< "a" >>) >>,
      << >> }

\* the typed records callers write
DataOf(E) ==
    IF E = Counter THEN { << IntOf(7) >> }
    ELSE IF E = Pair THEN { << IntOf(3), IntOf(-4) >> }
    ELSE IF E = User THEN { << IntOf(1), StrOf(<< "J", "o", "e" >>) >>,
                            << IntOf(-2), StrOf(<< >>) >> }
    ELSE { << IntOf(1), PresentOf(IntOf(5)) >>, << IntOf(1), AbsentOf >> }

DataFilter(a1) == [a1_range |-> a1]
FilterVariants(echoes) ==
    { None, Some(<< >>), Some(<< DataFilter(None) >>) }
    \cup { Some(<< DataFilter(Some(t)) >>) : t \in echoes }
    \cup { Some(<< DataFilter(Some(t)), DataFilter(Some(t)) >>) : t \in echoes \ BadEchoTexts }
ValueRangeVariants(rowsets) ==
    { None, Some([values |-> None]) } \cup { Some([values |-> Some(r)]) : r \in rowsets }
MatchedValueRange(f, v) == [data_filters |-> f, value_range |-> v]

ApiErr == [tag |-> "Err"]
ApiOk(v) == [tag |-> "Ok", v |-> v]
\* what the values-by-data-filter call can return
GetResponses(In) ==
    { ApiErr, ApiOk([value_ranges |-> None]), ApiOk([value_ranges |-> Some(<< >>)]) }
    \cup { ApiOk([value_ranges |-> Some(<< MatchedValueRange(f, v) >>)]) :
             f \in FilterVariants(In.echoes), v \in ValueRangeVariants(In.rowsets) }
\* what the values-append call can return
AppendResponses(In) ==
    { ApiErr, ApiOk([updates |-> None]), ApiOk([updates |-> Some([updated_range |-> None])]) }
    \cup { ApiOk([updates |-> Some([updated_range |-> Some(t)])]) : t \in In.echoes }
\* what the values-update call can return
WriteResponses == { ApiErr, ApiOk(<< >>) }

\* one client using the repository, with every input
FullInputs ==
    [ starts |-> StartCells, rows |-> 1..MaxRows, types |-> EntityTypes,
      echoes |-> EchoTexts, rowsets |-> SeqsUpTo(RowFixtures, MaxRespRows) ]
\* clients sharing a handle: one start, one record type, one echoed range
SharedInputs ==
    [ starts |-> { SheetA1CellId_new(Users, A1CellId_new(<< "A" >>, 1)) },
      rows |-> {1}, types |-> {User},
      echoes |-> { Users \o << "!", "A", "1", ":", "B", "3" >> },
      rowsets |-> { << << StringValue(<< "1" >>), StringValue(<< "J", "o", "e" >>) >> >> } ]

\* ----------------------------------------------------------------- state
Callers == 1..NumCallers
NoCaller == 0

VARIABLES
    pc,        \* per caller: "idle", "waiting" (in lock().await), "calling", "done"
    op,        \* per caller: the repository operation it runs
    args,      \* per caller: the operation's arguments
    request,   \* per caller: the call made on the driver, if any
    response,  \* per caller: what the service returned, if anything
    result,    \* per caller: what the operation returned (Ok, Err) or a panic
    holder,    \* the caller holding the driver's Mutex, or NoCaller
    waiters,   \* callers queued on the Mutex, in arrival order
    calc,      \* the last call on the addressing types: function, inputs, outputs
    iter,      \* the A1RangeIterator in use and what its next() calls returned
    stored     \* the sheet at the service: the value of each observed cell

vars == << pc, op, args, request, response, result, holder, waiters, calc, iter,
           stored, overflow_checks >>

NoArgs == [tag |-> "none"]
NoRequest == [call |-> "none"]
NoResponse == [tag |-> "none"]
NoResult == [tag |-> "none"]
NoCalc == [fn |-> "none"]
NoIter == [state |-> "none"]
\* no cell of the sheet is observed
NoCells == [cell \in {} |-> << >>]

Init ==
    /\ pc = [c \in Callers |-> "idle"]
    /\ op = [c \in Callers |-> "none"]
    /\ args = [c \in Callers |-> NoArgs]
    /\ request = [c \in Callers |-> NoRequest]
    /\ response = [c \in Callers |-> NoResponse]
    /\ result = [c \in Callers |-> NoResult]
    /\ holder = NoCaller
    /\ waiters = << >>
    /\ calc = NoCalc
    /\ iter = NoIter
    /\ stored = NoCells
    /\ overflow_checks \in BOOLEAN

\* the operation ends before any call on the driver
Return(c, o, a, r) ==
    /\ pc' = [pc EXCEPT ![c] = "done"]
    /\ op' = [op EXCEPT ![c] = o]
    /\ args' = [args EXCEPT ![c] = a]
    /\ result' = [result EXCEPT ![c] = r]
    /\ UNCHANGED << request, response, holder, waiters, calc, iter, stored, overflow_checks >>

\* self.driver.lock(): the caller queues on the Mutex
Lock(c, o, a, req) ==
    /\ pc' = [pc EXCEPT ![c] = "waiting"]
    /\ op' = [op EXCEPT ![c] = o]
    /\ args' = [args EXCEPT ![c] = a]
    /\ request' = [request EXCEPT ![c] = req]
    /\ waiters' = Append(waiters, c)
    /\ UNCHANGED << response, result, holder, calc, iter, stored, overflow_checks >>

\* Repository::find_in_range up to lock()
FindInRange(c, In) ==
    /\ pc[c] = "idle"
    /\ \E start \in In.starts, rows \in In.rows, E \in In.types :
         LET a == [start |-> start, rows |-> rows, E |-> E]
             range == convert_into_range(start, rows, entity_width(E))
         IN  IF IsPanic(range) THEN Return(c, "find_in_range", a, range)
             ELSE Lock(c, "find_in_range", a,
                       [call |-> "try_get_range", range |-> range.v,
                        text |-> SheetA1Range_to_string(range.v)])

\* Repository::update up to lock()
Update(c, In) ==
    /\ pc[c] = "idle"
    /\ \E position \in In.starts, E \in In.types, serialized \in BOOLEAN :
       \E d \in DataOf(E) :
         LET entity == Entity(position, d)
             a == [entity |-> entity, E |-> E, serialized |-> serialized]
             range == update_range(entity, E)
         IN  IF IsPanic(range) THEN Return(c, "update", a, range)
             ELSE IF ~serialized THEN Return(c, "update", a, Err(DriverError))
             ELSE Lock(c, "update", a,
                       [call |-> "try_write_range", range |-> range.v,
                        text |-> SheetA1Range_to_string(range.v),
                        data |-> << SheetRowSerde_serialize(d) >>])

\* Repository::insert up to lock()
Insert(c, In) ==
    /\ pc[c] = "idle"
    /\ \E start \in In.starts, rows \in In.rows, E \in In.types, serialized \in BOOLEAN :
       \E d \in DataOf(E) :
         LET a == [start |-> start, rows |-> rows, E |-> E, data |-> d,
                   serialized |-> serialized]
             range == convert_into_range(start, rows, entity_width(E))
         IN  IF IsPanic(range) THEN Return(c, "insert", a, range)
             ELSE IF ~serialized THEN Return(c, "insert", a, Err(DriverError))
             ELSE Lock(c, "insert", a,
                       [call |-> "try_append_row", range |-> range.v,
                        text |-> SheetA1Range_to_string(range.v),
                        row |-> SheetRowSerde_serialize(d)])

\* Repository::delete: todo!()
Delete(c, In) ==
    /\ pc[c] = "idle"
    /\ \E position \in In.starts, E \in In.types :
       \E d \in DataOf(E) :
         Return(c, "delete", [entity |-> Entity(position, d), E |-> E],
                Panic("not yet implemented: Brainstorm on how to delete entities properly"))

\* mutant of Acquire: the call starts without waiting for the Mutex to be free
Acquire_without_exclusion(c) ==
    /\ pc[c] = "waiting"
    /\ Len(waiters) > 0 /\ Head(waiters) = c
    /\ holder' = c
    /\ waiters' = Tail(waiters)
    /\ pc' = [pc EXCEPT ![c] = "calling"]
    /\ UNCHANGED << op, args, request, response, result, calc, iter, stored, overflow_checks >>

\* lock().await completes: the Mutex is free and the caller is first in line;
\* the guard is held and the service call starts
Acquire(c) ==
    /\ pc[c] = "waiting"
    /\ holder = NoCaller
    /\ Len(waiters) > 0 /\ Head(waiters) = c
    /\ holder' = c
    /\ waiters' = Tail(waiters)
    /\ pc' = [pc EXCEPT ![c] = "calling"]
    /\ UNCHANGED << op, args, request, response, result, calc, iter, stored, overflow_checks >>

\* mutant of Returned: the guard is kept when the service call failed
Returned_keeping_lock_on_error(c, api, r) ==
    /\ response' = [response EXCEPT ![c] = api]
    /\ result' = [result EXCEPT ![c] = r]
    /\ holder' = IF api.tag = "Err" THEN holder ELSE NoCaller
    /\ pc' = [pc EXCEPT ![c] = "done"]
    /\ UNCHANGED << op, args, request, waiters, calc, iter, overflow_checks >>

\* the service call returned: the guard drops at the end of the statement and
\* the rest of the operation runs without the driver
Returned(c, api, r) ==
    /\ response' = [response EXCEPT ![c] = api]
    /\ result' = [result EXCEPT ![c] = r]
    /\ holder' = NoCaller
    /\ pc' = [pc EXCEPT ![c] = "done"]
    /\ UNCHANGED << op, args, request, waiters, calc, iter, overflow_checks >>

GetRangeReturns(c, In) ==
    /\ pc[c] = "calling" /\ op[c] = "find_in_range"
    /\ \E api \in GetResponses(In) : Returned(c, api, find_in_range_result(args[c].E, api))
    /\ UNCHANGED stored

\* mutant of write_values: only the first value of each row is written
write_values_first_cell(grid, range, data) ==
    [cell \in DOMAIN grid |->
        LET i == cell.row - range.range.start.row + 1
            j == cell.col - string_to_dec_as_base26(range.range.start.col) + 1
        IN  IF cell.sheet = range.sheet /\ i \in 1..Len(data) /\ j = 1 /\ Len(data[i]) > 0
            THEN data[i][j] ELSE grid[cell]]

\* values_update at the service: one request replaces the cells that the values
\* cover, from the start of the range, and no other cell
write_values(grid, range, data) ==
    [cell \in DOMAIN grid |->
        LET i == cell.row - range.range.start.row + 1
            j == cell.col - string_to_dec_as_base26(range.range.start.col) + 1
        IN  IF cell.sheet = range.sheet /\ i \in 1..Len(data) /\ j \in 1..Len(data[i])
            THEN data[i][j] ELSE grid[cell]]

WriteRangeReturns(c) ==
    /\ pc[c] = "calling" /\ op[c] = "update"
    /\ \E api \in WriteResponses :
         /\ Returned(c, api, update_result(api))
         /\ stored' = IF api.tag = "Ok"
                      THEN write_values(stored, request[c].range, request[c].data)
                      ELSE stored

\* the row is appended where the response says it was; a response that names
\* no range leaves the observed cells as they are
AppendRowReturns(c, In) ==
    /\ pc[c] = "calling" /\ op[c] = "insert"
    /\ \E api \in AppendResponses(In) :
         /\ Returned(c, api, insert_result(args[c].data, api))
         /\ stored' = IF IsOk(insert_result(args[c].data, api))
                      THEN write_values(stored,
                                        SheetA1Range_from_raw(api.v.updates.v.updated_range.v).v,
                                        << request[c].row >>)
                      ELSE stored

\* the caller takes the result and is free to start another operation
Finish(c) ==
    /\ pc[c] = "done"
    /\ pc' = [pc EXCEPT ![c] = "idle"]
    /\ op' = [op EXCEPT ![c] = "none"]
    /\ args' = [args EXCEPT ![c] = NoArgs]
    /\ request' = [request EXCEPT ![c] = NoRequest]
    /\ response' = [response EXCEPT ![c] = NoResponse]
    /\ result' = [result EXCEPT ![c] = NoResult]
    /\ UNCHANGED << holder, waiters, calc, iter, stored, overflow_checks >>

Step(c, In) ==
    \/ FindInRange(c, In)
    \/ Update(c, In)
    \/ Insert(c, In)
    \/ Delete(c, In)
    \/ Acquire(c)
    \/ GetRangeReturns(c, In)
    \/ WriteRangeReturns(c)
    \/ AppendRowReturns(c, In)
    \/ Finish(c)

\* one client, every input
Next == Step(1, FullInputs)
Spec == Init /\ [][Next]_vars

\* NumCallers clients sharing the driver handle
NextShared == \E c \in Callers : Step(c, SharedInputs)
SpecShared == Init /\ [][NextShared]_vars

\* clients whose operations differ only in how the service call ends
LockInputs ==
    [ starts |-> { SheetA1CellId_new(Users, A1CellId_new(<< "A" >>, 1)) },
      rows |-> {1}, types |-> {Pair},
      echoes |-> { Users \o << "!", "A", "1", ":", "B", "3" >> },
      rowsets |-> { } ]
NextLock == \E c \in Callers : Step(c, LockInputs)
\* the Mutex hands the lock to the first waiter once it is free, and every
\* service call returns
ServiceReturns(c) ==
    \/ GetRangeReturns(c, LockInputs)
    \/ WriteRangeReturns(c)
    \/ AppendRowReturns(c, LockInputs)
Fairness == \A c \in Callers : WF_vars(Acquire(c)) /\ WF_vars(ServiceReturns(c))
SpecLock == Init /\ [][NextLock]_vars /\ Fairness

\* clients updating entities on an observed part of the sheet
StoreInputs ==
    [ starts |-> { SheetA1CellId_new(Users, A1CellId_new(<< "A" >>, 1)),
                   SheetA1CellId_new(Users, A1CellId_new(<< "A" >>, 2)) },
      rows |-> {1}, types |-> {User},
      echoes |-> { Users \o << "!", "A", "1", ":", "B", "3" >> },
      rowsets |-> { << << StringValue(<< "1" >>), StringValue(<< "J", "o", "e" >>) >> >> } ]
\* the observed cells, by column rank and row, and what they hold at first
StoreCols == 1..3
StoreRows == 1..3
StoreCells == { [sheet |-> Users, col |-> j, row |-> i] : j \in StoreCols, i \in StoreRows }
OldValue == StringValue(<< "o", "l", "d" >>)
InitStore ==
    /\ pc = [c \in Callers |-> "idle"]
    /\ op = [c \in Callers |-> "none"]
    /\ args = [c \in Callers |-> NoArgs]
    /\ request = [c \in Callers |-> NoRequest]
    /\ response = [c \in Callers |-> NoResponse]
    /\ result = [c \in Callers |-> NoResult]
    /\ holder = NoCaller
    /\ waiters = << >>
    /\ calc = NoCalc
    /\ iter = NoIter
    /\ stored = [cell \in StoreCells |-> OldValue]
    /\ overflow_checks \in BOOLEAN
StepStore(c) ==
    \/ Update(c, StoreInputs)
    \/ Acquire(c)
    \/ WriteRangeReturns(c)
    \/ Finish(c)
NextStore == \E c \in Callers : StepStore(c)
SpecStore == InitStore /\ [][NextStore]_vars

\* ------------------------------------------------- the addressing types
\* texts that Letters::new accepts
ColTexts ==
    { << "A" >>, << "B" >>, << "C" >>, << "Y" >>, << "Z" >>, << "A", "A" >>, << "A", "G" >>,
      << "A", "Z" >>, << "Z", "Z" >>, << "a" >>, << "z" >>, << "a", "B" >> }
\* texts that it does not
BadColTexts == { << >>, << "1" >>, << "A", "1" >>, << " " >>, << "A", "-" >> }
RawColTexts == ColTexts \cup BadColTexts
\* cell texts handed to the parser
CellTexts ==
    { c \o NatToText(r) : c \in ColTexts, r \in 0..MaxCellRow }
    \cup { << >>, << "A" >>, << "1" >>, << "A", "!", "1" >>, << "1", "A" >>,
           << "A", "1", "B", "2" >>, << "A", "1", "0" >>, << "A", "A", "2", "7" >> }
\* cells to add
Z26 == A1CellId_new(<< "Z" >>, 26)
AddCells == { A1CellId_new(c, r) : c \in ColTexts, r \in 1..MaxCellRow } \cup { Z26 }
\* cells to compare
CmpCells ==
    { A1CellId_new(c, r) : c \in { << "A" >>, << "B" >>, << "A", "G" >>, << "a" >> },
                           r \in 1..MaxCellRow }
\* corners of the ranges iterated
IterCells ==
    { A1CellId_new(c, r) : c \in { << "A" >>, << "B" >>, << "C" >> }, r \in 1..MaxIterRow }
    \cup { A1CellId_new(<< "A", "G" >>, 1), A1CellId_new(<< "a" >>, 2) }
IterRanges == { A1Range_new(from, to) : from \in IterCells, to \in IterCells }

\* corners of the ranges moved to A1
ZeroBaseCells ==
    { A1CellId_new(c, r) :
        c \in { << "A" >>, << "B" >>, << "C" >>, << "D" >>, << "A", "B" >>, << "A", "D" >> },
        r \in { 1, 2, 3, 4 } }
ZeroBaseRanges == { A1Range_new(from, to) : from \in ZeroBaseCells, to \in ZeroBaseCells }

\* range texts handed to the parsers, bare and with a sheet
RangeTexts ==
    { << "A", "1", ":", "C", "3" >>, << "B", "2", ":", "D", "4" >>,
      << "A", "A", "1", "0", ":", "A", "B", "1", "1" >>,
      << "A", "1" >>, << >>, << ":" >>, << "A", "1", ":", "B", "2", ":", "C", "3" >>,
      << "A", "1", ":", "C" >>, << "1", ":", "C", "3" >>, << "A", "1", ":" >>,
      << "A", "1", "-", "C", "3" >>, << "A", "0", ":", "B", "1" >>,
      << "A", "1", ":", "B", "0" >>, << "1", "A", ":", "B", "2" >> }
MySheet == << "M", "y", " ", "S", "h", "e", "e", "t" >>
SheetRangeTexts ==
    EchoTexts
    \cup { Users \o << "!" >> \o t : t \in RangeTexts }
    \cup { << "'" >> \o MySheet \o << "'", "!", "A", "1", ":", "C", "3" >>,
           MySheet \o << "!", "A", "1", ":", "C", "3" >>,
           << "a", "!", "b", "!", "A", "1", ":", "B", "2" >>,
           << "!", "A", "1", ":", "B", "2" >> }

\* sheet ranges that are written as text
SheetRanges ==
    { SheetA1Range_new(sheet, A1Range_new(from, to)) :
        sheet \in { Users, MySheet, << "S", "1" >> },
        from \in { A1CellId_new(<< "A" >>, 1), A1CellId_new(<< "B" >>, 2) },
        to \in { A1CellId_new(<< "C" >>, 3), A1CellId_new(<< "A", "B" >>, 11) } }

\* numeric cells converted to A1
NumCells ==
    { NumCellId_from_primitives(col, row) :
        col \in { 0, 1, 25, 26, 701, 702, U32Max }, row \in { 0, 1, 25, U32Max } }

\* Each call below is made once, on fresh inputs.

\* dec_to_string_as_base26, then string_to_dec_as_base26 on what it returned
RankRoundTrip ==
    /\ calc = NoCalc /\ iter = NoIter
    /\ \E dec_number \in 1..MaxRank :
         LET string == dec_to_string_as_base26(dec_number) IN
         calc' = [fn |-> "rank_round_trip", dec_number |-> dec_number,
                  string |-> string, back |-> string_to_dec_as_base26(string)]
    /\ UNCHANGED << pc, op, args, request, response, result, holder, waiters, iter,
                    stored, overflow_checks >>

\* string_to_dec_as_base26 on a Letters value, then dec_to_string_as_base26
LettersRoundTrip ==
    /\ calc = NoCalc /\ iter = NoIter
    /\ \E value \in ColTexts :
         LET l == Letters_new(value).v
             dec_number == string_to_dec_as_base26(l)
         IN  calc' = [fn |-> "letters_round_trip", l |-> l, dec_number |-> dec_number,
                      back |-> dec_to_string_as_base26(dec_number)]
    /\ UNCHANGED << pc, op, args, request, response, result, holder, waiters, iter,
                    stored, overflow_checks >>

\* Letters::new(value)
NewLetters ==
    /\ calc = NoCalc /\ iter = NoIter
    /\ \E value \in RawColTexts :
         calc' = [fn |-> "Letters::new", value |-> value, out |-> Letters_new(value)]
    /\ UNCHANGED << pc, op, args, request, response, result, holder, waiters, iter,
                    stored, overflow_checks >>

\* Letters::try_from(value)
TryFromLetters ==
    /\ calc = NoCalc /\ iter = NoIter
    /\ \E value \in RawColTexts :
         calc' = [fn |-> "Letters::try_from", value |-> value, out |-> Letters_try_from(value)]
    /\ UNCHANGED << pc, op, args, request, response, result, holder, waiters, iter,
                    stored, overflow_checks >>

\* A1CellId::from_primitives(col, row)
FromPrimitives ==
    /\ calc = NoCalc /\ iter = NoIter
    /\ \E col \in RawColTexts, row \in 0..MaxCellRow :
         calc' = [fn |-> "A1CellId::from_primitives", col |-> col, row |-> row,
                  out |-> A1CellId_from_primitives(col, row)]
    /\ UNCHANGED << pc, op, args, request, response, result, holder, waiters, iter,
                    stored, overflow_checks >>

\* A1CellId::try_from(value)
ParseCell ==
    /\ calc = NoCalc /\ iter = NoIter
    /\ \E value \in CellTexts :
         calc' = [fn |-> "A1CellId::try_from", value |-> value,
                  out |-> A1CellId_try_from(value)]
    /\ UNCHANGED << pc, op, args, request, response, result, holder, waiters, iter,
                    stored, overflow_checks >>

\* l + delta
LettersAdd ==
    /\ calc = NoCalc /\ iter = NoIter
    /\ \E value \in ColTexts, delta \in 0..MaxDelta :
         LET l == Letters_new(value).v IN
         calc' = [fn |-> "Letters::add", l |-> l, delta |-> delta,
                  out |-> Letters_add(l, delta)]
    /\ UNCHANGED << pc, op, args, request, response, result, holder, waiters, iter,
                    stored, overflow_checks >>

\* l - delta
LettersSub ==
    /\ calc = NoCalc /\ iter = NoIter
    /\ \E value \in ColTexts, delta \in 0..MaxDelta :
         LET l == Letters_new(value).v IN
         calc' = [fn |-> "Letters::sub", l |-> l, delta |-> delta,
                  out |-> Letters_sub(l, delta)]
    /\ UNCHANGED << pc, op, args, request, response, result, holder, waiters, iter,
                    stored, overflow_checks >>

\* (l + delta) - delta
LettersAddSub ==
    /\ calc = NoCalc /\ iter = NoIter
    /\ \E value \in ColTexts, delta \in 0..MaxDelta :
         LET l == Letters_new(value).v
             sum == Letters_add(l, delta)
         IN  calc' = [fn |-> "Letters::add_sub", l |-> l, delta |-> delta,
                      sum |-> sum, back |-> Letters_sub(sum.v, delta)]
    /\ UNCHANGED << pc, op, args, request, response, result, holder, waiters, iter,
                    stored, overflow_checks >>

\* a + b on cells
CellAdd ==
    /\ calc = NoCalc /\ iter = NoIter
    /\ \E a \in AddCells, b \in AddCells :
         calc' = [fn |-> "A1CellId::add", a |-> a, b |-> b, out |-> A1CellId_add(a, b)]
    /\ UNCHANGED << pc, op, args, request, response, result, holder, waiters, iter,
                    stored, overflow_checks >>

\* partial_cmp and == on the pairs of three cells
CellCompare ==
    /\ calc = NoCalc /\ iter = NoIter
    /\ \E a \in CmpCells, b \in CmpCells, c \in CmpCells :
         calc' = [fn |-> "A1CellId::partial_cmp", a |-> a, b |-> b, c |-> c,
                  ab |-> A1CellId_partial_cmp(a, b), ba |-> A1CellId_partial_cmp(b, a),
                  bc |-> A1CellId_partial_cmp(b, c), ac |-> A1CellId_partial_cmp(a, c),
                  eq_ab |-> (a = b)]
    /\ UNCHANGED << pc, op, args, request, response, result, holder, waiters, iter,
                    stored, overflow_checks >>

\* A1Range::from_raw(value)
ParseRange ==
    /\ calc = NoCalc /\ iter = NoIter
    /\ \E value \in RangeTexts :
         calc' = [fn |-> "A1Range::from_raw", value |-> value, out |-> A1Range_from_raw(value)]
    /\ UNCHANGED << pc, op, args, request, response, result, holder, waiters, iter,
                    stored, overflow_checks >>

\* SheetA1Range::from_raw(value)
ParseSheetRange ==
    /\ calc = NoCalc /\ iter = NoIter
    /\ \E value \in SheetRangeTexts :
         calc' = [fn |-> "SheetA1Range::from_raw", value |-> value,
                  out |-> SheetA1Range_from_raw(value)]
    /\ UNCHANGED << pc, op, args, request, response, result, holder, waiters, iter,
                    stored, overflow_checks >>

\* sheet_range.to_string(), then SheetA1Range::from_raw on the text
DisplaySheetRange ==
    /\ calc = NoCalc /\ iter = NoIter
    /\ \E self \in SheetRanges :
         LET text == SheetA1Range_to_string(self) IN
         calc' = [fn |-> "SheetA1Range::to_string", self |-> self, text |-> text,
                  parsed |-> SheetA1Range_from_raw(text)]
    /\ UNCHANGED << pc, op, args, request, response, result, holder, waiters, iter,
                    stored, overflow_checks >>

\* NumCellId::from(a1), then A1CellId::from on the result
A1ToNum ==
    /\ calc = NoCalc /\ iter = NoIter
    /\ \E a1 \in AddCells :
         calc' = [fn |-> "NumCellId::from", a1 |-> a1, num |-> NumCellId_from(a1),
                  back |-> A1CellId_from(NumCellId_from(a1))]
    /\ UNCHANGED << pc, op, args, request, response, result, holder, waiters, iter,
                    stored, overflow_checks >>

\* A1CellId::from(num), then NumCellId::from on the result
NumToA1 ==
    /\ calc = NoCalc /\ iter = NoIter
    /\ \E num \in NumCells :
         LET a1 == A1CellId_from(num) IN
         calc' = [fn |-> "A1CellId::from", num |-> num, a1 |-> a1,
                  back |-> IF IsOk(a1) THEN Ok(NumCellId_from(a1.v)) ELSE a1]
    /\ UNCHANGED << pc, op, args, request, response, result, holder, waiters, iter,
                    stored, overflow_checks >>

\* cell.delta(columns, rows)
CellDelta ==
    /\ calc = NoCalc /\ iter = NoIter
    /\ \E cell \in AddCells, columns \in (0 - MaxDelta)..MaxDelta,
          rows \in (0 - MaxDelta)..MaxDelta :
         calc' = [fn |-> "A1CellId::delta", cell |-> cell, columns |-> columns,
                  rows |-> rows, out |-> A1CellId_delta(cell, columns, rows)]
    /\ UNCHANGED << pc, op, args, request, response, result, holder, waiters, iter,
                    stored, overflow_checks >>

\* range.into_zero_base_range()
ZeroBase ==
    /\ calc = NoCalc /\ iter = NoIter
    /\ \E range \in ZeroBaseRanges :
         calc' = [fn |-> "A1Range::into_zero_base_range", range |-> range,
                  out |-> A1Range_into_zero_base_range(range)]
    /\ UNCHANGED << pc, op, args, request, response, result, holder, waiters, iter,
                    stored, overflow_checks >>

\* range.iter()
RangeIter ==
    /\ calc = NoCalc /\ iter = NoIter
    /\ \E range \in IterRanges :
         iter' = [state |-> "iterating", it |-> A1Range_iter(range),
                  yielded |-> << >>, ended |-> FALSE, last |-> "none"]
    /\ UNCHANGED << pc, op, args, request, response, result, holder, waiters, calc,
                    stored, overflow_checks >>

\* one call of next() on the iterator; at most MaxYield cells are followed
IterNext ==
    /\ iter.state = "iterating"
    /\ Len(iter.yielded) < MaxYield
    /\ LET r == A1RangeIterator_next(iter.it) IN
       iter' = IF r.item.some
               THEN [iter EXCEPT !.it = r.it, !.yielded = Append(@, r.item.v),
                                 !.last = "Some"]
               ELSE [iter EXCEPT !.it = r.it, !.ended = TRUE, !.last = "None"]
    /\ UNCHANGED << pc, op, args, request, response, result, holder, waiters, calc,
                    stored, overflow_checks >>

NextAddr ==
    \/ RankRoundTrip
    \/ LettersRoundTrip
    \/ NewLetters
    \/ TryFromLetters
    \/ FromPrimitives
    \/ ParseCell
    \/ LettersAdd
    \/ LettersSub
    \/ LettersAddSub
    \/ CellAdd
    \/ CellCompare
    \/ ParseRange
    \/ ParseSheetRange
    \/ DisplaySheetRange
    \/ A1ToNum
    \/ NumToA1
    \/ CellDelta
    \/ ZeroBase
    \/ RangeIter
    \/ IterNext
SpecAddr == Init /\ [][NextAddr]_vars

\* ================================================================ claims
rank(col) == string_to_dec_as_base26(col)

\* a find_in_range that got a matched value range back from the driver
FindDone(c) ==
    /\ pc[c] = "done" /\ op[c] = "find_in_range"
    /\ response[c].tag = "Ok"
    /\ response[c].v.value_ranges.some
    /\ Len(response[c].v.value_ranges.v) > 0
Mvr(c) == response[c].v.value_ranges.v[1]
\* ... whose single filter echoes the well-formed range of fixture f
AnchoredAt(c, f) ==
    /\ FindDone(c)
    /\ Mvr(c).data_filters = Some(<< DataFilter(Some(f.text)) >>)
    /\ Mvr(c).value_range.some
    /\ Mvr(c).value_range.v.values.some
Rows(c) == Mvr(c).value_range.v.values.v
AllDecode(E, rows) == \A i \in 1..Len(rows) : IsOk(SheetRowSerde_deserialize(E, rows[i]))

\* C1: the range find_in_range and insert request starts at `start` and ends
\* (width - 1) columns to the right and (rows - 1) rows below it, and computing
\* it never fails.
C1_RequestedRangeCoversRowsAndWidth ==
    \A c \in Callers :
        (op[c] \in {"find_in_range", "insert"}) =>
            /\ ~(IsPanic(result[c]) /\ request[c] = NoRequest)
            /\ (request[c] # NoRequest) =>
                  /\ request[c].range.sheet = args[c].start.sheet_name
                  /\ request[c].range.range.start = args[c].start.cell
                  /\ rank(request[c].range.range.end.col)
                       = rank(args[c].start.cell.col) + entity_width(args[c].E) - 1
                  /\ request[c].range.range.end.row
                       = args[c].start.cell.row + args[c].rows - 1

\* C2: a response with one filter anchored at (S, C, R) and n rows that all
\* decode gives n entities in response order, the i-th at (S, C, R + i) with the
\* i-th row's decoding; the anchor is the echoed one.
C2_PositionalDecode ==
    \A c \in Callers : \A f \in EchoFixtures :
        (AnchoredAt(c, f) /\ AllDecode(args[c].E, Rows(c))) =>
            /\ IsOk(result[c])
            /\ Len(result[c].v) = Len(Rows(c))
            /\ \A i \in 1..Len(Rows(c)) :
                  /\ result[c].v[i].position
                       = SheetA1CellId_new(f.sheet, A1CellId_new(f.col, f.row + (i - 1)))
                  /\ result[c].v[i].data = SheetRowSerde_deserialize(args[c].E, Rows(c)[i]).v
C2_Witness ==
    \E c \in Callers : \E f \in EchoFixtures :
        /\ AnchoredAt(c, f) /\ AllDecode(args[c].E, Rows(c))
        /\ Len(Rows(c)) >= 2
        /\ Rows(c)[1] # Rows(c)[2]
        /\ f.col # args[c].start.cell.col /\ f.row # args[c].start.cell.row
        /\ IsOk(result[c])

\* C3: update issues one range write that starts at the entity's position,
\* covers one row and entity_width columns, and carries one serialized row.
C3_UpdateWritesOneRowOfWidth ==
    \A c \in Callers :
        (op[c] = "update" /\ request[c] # NoRequest) =>
            /\ request[c].call = "try_write_range"
            /\ request[c].range.range.start = args[c].entity.position.cell
            /\ request[c].range.range.end.row = args[c].entity.position.cell.row
            /\ rank(request[c].range.range.end.col)
                 = rank(args[c].entity.position.cell.col) + entity_width(args[c].E) - 1
            /\ Len(request[c].data) = 1

\* C4: at most one service call on the shared handle is in flight, and the
\* caller whose call is in flight holds the lock.
C4_OneCallInFlight ==
    /\ Cardinality({c \in Callers : pc[c] = "calling"}) <= 1
    /\ \A c \in Callers : pc[c] = "calling" => holder = c
C4_Witness ==
    \E c, d \in Callers :
        /\ c # d
        /\ pc[c] = "calling" /\ pc[d] = "waiting"
        /\ op[c] # op[d]

\* C5: the anchor is extracted only from a response with exactly one data
\* filter; no filter list, an empty one or more than one filter gives
\* InvalidArgument and no entities.
C5_ExactlyOneFilter ==
    \A c \in Callers :
        FindDone(c) =>
            /\ IsOk(result[c]) =>
                  (Mvr(c).data_filters.some /\ Len(Mvr(c).data_filters.v) = 1)
            /\ (~Mvr(c).data_filters.some \/ Len(Mvr(c).data_filters.v) # 1) =>
                  (IsErr(result[c]) /\ result[c].e.kind = "InvalidArgument")
C5_Witness ==
    \E c \in Callers :
        /\ FindDone(c)
        /\ Mvr(c).data_filters.some /\ Len(Mvr(c).data_filters.v) = 2
        /\ Mvr(c).value_range.some /\ Mvr(c).value_range.v.values.some
        /\ Len(Mvr(c).value_range.v.values.v) > 0
        /\ IsErr(result[c]) /\ result[c].e.kind = "InvalidArgument"

\* an insert whose append call returned a response
InsertDone(c) == pc[c] = "done" /\ op[c] = "insert" /\ response[c].tag = "Ok"
LacksUpdatedRange(avr) == ~avr.updates.some \/ ~avr.updates.v.updated_range.some

\* C6: an append response without 'updates' or without 'updated_range' gives
\* UnexpectedResponse carrying the response; with both, the entity returned is
\* at the start cell of the echoed range.
C6_InsertUnexpectedResponse ==
    \A c \in Callers :
        InsertDone(c) =>
            /\ LacksUpdatedRange(response[c].v) =>
                  /\ IsErr(result[c])
                  /\ result[c].e.kind = "UnexpectedResponse"
                  /\ result[c].e.response = response[c].v
            /\ IsOk(result[c]) =>
                  \E f \in EchoFixtures :
                      /\ response[c].v.updates.v.updated_range = Some(f.text)
                      /\ result[c].v.position
                           = SheetA1CellId_new(f.sheet, A1CellId_new(f.col, f.row))
                      /\ result[c].v.data = args[c].data
            /\ \A f \in EchoFixtures :
                  (~LacksUpdatedRange(response[c].v)
                     /\ response[c].v.updates.v.updated_range = Some(f.text))
                  => IsOk(result[c])
C6_Witness ==
    \E c \in Callers :
        /\ InsertDone(c)
        /\ response[c].v.updates.some
        /\ ~response[c].v.updates.v.updated_range.some
        /\ IsErr(result[c]) /\ result[c].e.kind = "UnexpectedResponse"

\* C7: delete returns a typed 'not supported' error, without a panic and
\* without a call to the access service.
C7_DeleteNotSupported ==
    \A c \in Callers :
        (op[c] = "delete" /\ pc[c] = "done") =>
            /\ request[c] = NoRequest
            /\ IsErr(result[c])
            /\ result[c].e.kind = "NotSupported"

\* the first row of a decoded response, and its fields before the j-th decoding
FirstRow(c) == Rows(c)[1]
Decodes(E, row, j) == IsOk(parse_cell(row, j - 1, E.fields[j].name, E.fields[j].type))
PrefixDecodes(E, row, j) == \A k \in 1..(j - 1) : Decodes(E, row, k)
IsRequired(T) == T \in {T_i8, T_String}
\* a find_in_range whose response was decoded row by row, with at least one row
RowDecoded(c) == (\E f \in EchoFixtures : AnchoredAt(c, f)) /\ Len(Rows(c)) > 0

\* C8: a row shorter than a field's index: a required field fails with
\* FieldIsMissing naming it, an optional field decodes to None without error.
C8_ShortRow ==
    \A c \in Callers :
        RowDecoded(c) =>
            LET E == args[c].E
                row == FirstRow(c)
                j == Len(row) + 1
            IN  (j <= Len(E.fields) /\ PrefixDecodes(E, row, j)) =>
                    IF IsRequired(E.fields[j].type)
                    THEN result[c] = Err(ParsingError([kind |-> "FieldIsMissing",
                                                        field |-> E.fields[j].name,
                                                        row |-> row]))
                    ELSE /\ ~(IsErr(result[c]) /\ result[c].e.kind = "ParsingError"
                                /\ result[c].e.source.kind = "FieldIsMissing"
                                /\ result[c].e.source.row = row)
                         /\ (j = Len(E.fields) /\ Len(Rows(c)) = 1) =>
                               (IsOk(result[c]) /\ result[c].v[1].data[j] = AbsentOf)
C8_Witness ==
    \E c \in Callers :
        /\ RowDecoded(c) /\ Len(Rows(c)) = 1
        /\ args[c].E = Profile
        /\ Len(FirstRow(c)) = 1
        /\ IsOk(result[c]) /\ result[c].v[1].data[2] = AbsentOf

\* C9: an optional field whose cell is present is decoded with the inner
\* type's codec: Some(v) when the cell parses, None only when it does not.
C9_OptionalFieldDecoded ==
    \A c \in Callers :
        (RowDecoded(c) /\ Len(Rows(c)) = 1) =>
            LET E == args[c].E
                row == FirstRow(c)
            IN  \A j \in 1..Len(E.fields) :
                    (/\ ~IsRequired(E.fields[j].type)
                     /\ j <= Len(row) /\ row[j].kind = "String"
                     /\ PrefixDecodes(E, row, j)
                     /\ j = Len(E.fields)) =>
                        /\ IsOk(result[c])
                        /\ result[c].v[1].data[j]
                             = Option_deserialize(E.fields[j].type, row[j].s).v

\* cell texts of the fixtures that are no i8
BadI8Texts == { << "x" >>, << "2", "0", "0" >>, << "J", "o", "e" >>, << "J", "o" >>, << "a" >> }

\* C10: a required field whose cell is present but does not parse fails with
\* CellDeserializationError carrying the field name, the type name and the input.
C10_CellDeserializationError ==
    \A c \in Callers :
        RowDecoded(c) =>
            LET E == args[c].E
                row == FirstRow(c)
            IN  \A j \in 1..Len(E.fields) :
                    (/\ E.fields[j].type = T_i8
                     /\ j <= Len(row) /\ row[j].kind = "String"
                     /\ row[j].s \in BadI8Texts
                     /\ PrefixDecodes(E, row, j)) =>
                        result[c] = Err(ParsingError([kind |-> "CellDeserializationError",
                                                      column_name |-> E.fields[j].name,
                                                      type_name |-> "i8",
                                                      input |-> row[j].s]))
C10_Witness ==
    \E c \in Callers :
        /\ RowDecoded(c)
        /\ args[c].E = Pair
        /\ Len(FirstRow(c)) = 2
        /\ FirstRow(c)[2] = StringValue(<< "J", "o", "e" >>)
        /\ IsErr(result[c]) /\ result[c].e.kind = "ParsingError"
        /\ result[c].e.source.kind = "CellDeserializationError"
        /\ result[c].e.source.column_name = "b"

\* the kinds of RepositoryError
RepositoryErrorKinds ==
    { "DriverError", "InvalidArgument", "ParsingError", "UnexpectedResponse" }

\* C11: whatever the service answered to a read (no value range, no values, no
\* filters, an echoed range that does not parse, an empty list of value
\* ranges), find_in_range returns a list of entities or a RepositoryError; it
\* never panics.
C11_ReadPathNeverPanics ==
    \A c \in Callers :
        (pc[c] = "done" /\ op[c] = "find_in_range" /\ response[c].tag = "Ok") =>
            \/ IsOk(result[c])
            \/ IsErr(result[c]) /\ result[c].e.kind \in RepositoryErrorKinds

\* the call on the driver was made and the driver returned an error
ServiceCallFailed(c) ==
    /\ request[c] # NoRequest
    /\ \/ response[c].tag = "Err"
       \/ /\ op[c] = "find_in_range" /\ response[c].tag = "Ok"
          /\ ~response[c].v.value_ranges.some
\* the read response has one filter whose echoed range does not parse
EchoDoesNotParse(c) ==
    /\ FindDone(c)
    /\ Mvr(c).value_range.some
    /\ \E t \in BadEchoTexts :
          /\ Mvr(c).data_filters = Some(<< DataFilter(Some(t)) >>)
          /\ IsErr(SheetA1Range_from_raw(t))
\* update or insert ended because the entity's row did not serialize
RowNotSerialized(c) ==
    /\ pc[c] = "done" /\ op[c] \in {"update", "insert"}
    /\ ~args[c].serialized
    /\ ~IsPanic(result[c])

\* C12: DriverError is reported only when the call on the access service
\* failed; a row that does not serialize in update or insert, and an echoed
\* range of a read that does not parse, are reported as ParsingError.
C12_ErrorKindPreserved ==
    \A c \in Callers :
        /\ (pc[c] = "done" /\ IsErr(result[c]) /\ result[c].e.kind = "DriverError")
              => ServiceCallFailed(c)
        /\ RowNotSerialized(c)
              => IsErr(result[c]) /\ result[c].e.kind = "ParsingError"
        /\ EchoDoesNotParse(c)
              => IsErr(result[c]) /\ result[c].e.kind = "ParsingError"

\* non-empty, uppercase A..Z only
Normalized(l) == Len(l) > 0 /\ \A i \in 1..Len(l) : InSeq(UpperSeq, l[i])
\* ranks with the letters the tests of the codec name for them
RankExamples ==
    { << 1, << "A" >> >>, << 26, << "Z" >> >>, << 27, << "A", "A" >> >>,
      << 28, << "A", "B" >> >>, << 53, << "B", "A" >> >>, << 703, << "A", "A", "A" >> >> }

\* C13: for every rank r >= 1, the letters of r read back give r, and they are
\* non-empty and uppercase A..Z only (1 is A, 26 is Z, 27 is AA, 703 is AAA).
C13_RankRoundTrip ==
    calc.fn = "rank_round_trip" =>
        /\ calc.back = calc.dec_number
        /\ Normalized(calc.string)
        /\ \A e \in RankExamples : calc.dec_number = e[1] => calc.string = e[2]
C13_Witness ==
    /\ calc.fn = "rank_round_trip"
    /\ calc.dec_number = 703
    /\ calc.string = << "A", "A", "A" >>
    /\ calc.back = 703

\* C14: for every string a Letters value can hold, the letters of its rank are
\* the string itself.
C14_LettersRoundTrip ==
    calc.fn = "letters_round_trip" => calc.back = calc.l

\* the functions that make a Letters value, and the Letters value they made
LettersMakers ==
    { "Letters::new", "Letters::try_from", "A1CellId::from_primitives",
      "A1CellId::try_from", "Letters::add", "Letters::sub" }
MadeLetters ==
    IF calc.fn \in { "A1CellId::from_primitives", "A1CellId::try_from" }
    THEN calc.out.v.col ELSE calc.out.v

\* C15: every Letters value that Letters::new, TryFrom<String>,
\* A1CellId::from_primitives, cell parsing or Letters arithmetic returns is
\* non-empty and uppercase A..Z only.
C15_LettersNormalized ==
    (calc.fn \in LettersMakers /\ IsOk(calc.out)) => Normalized(MadeLetters)

\* C16: rank(l + d) = rank(l) + d; rank(l - d) = rank(l) - d when d < rank(l);
\* (l + d) - d = l (Z + 1 = AA, AA - 1 = Z, AA - 2 = Y).
C16_LettersArithmetic ==
    /\ calc.fn = "Letters::add" =>
          /\ IsOk(calc.out)
          /\ rank(calc.out.v) = rank(calc.l) + calc.delta
    /\ (calc.fn = "Letters::sub" /\ calc.delta < rank(calc.l)) =>
          /\ IsOk(calc.out)
          /\ rank(calc.out.v) = rank(calc.l) - calc.delta
    /\ calc.fn = "Letters::add_sub" => calc.back = Ok(calc.l)

\* sums the tests of the cell addition name
AddExamples ==
    { << A1CellId_new(<< "A" >>, 1), A1CellId_new(<< "B" >>, 2), A1CellId_new(<< "C" >>, 3) >>,
      << A1CellId_new(<< "B" >>, 2), A1CellId_new(<< "C" >>, 2), A1CellId_new(<< "E" >>, 4) >>,
      << Z26, A1CellId_new(<< "A" >>, 1), A1CellId_new(<< "A", "A" >>, 27) >> }

Before(a, b) == a.row < b.row \/ (a.row = b.row /\ rank(a.col) < rank(b.col))

\* C18: a < b exactly when a's row is smaller, or the rows are equal and a's
\* column rank is smaller; the comparison is antisymmetric and transitive, and
\* it is Equal exactly when the two cells are equal.
C18_CellTotalOrder ==
    calc.fn = "A1CellId::partial_cmp" =>
        /\ (calc.ab = "Less") = Before(calc.a, calc.b)
        /\ (calc.ab = "Less") = (calc.ba = "Greater")
        /\ (calc.ab = "Less" /\ calc.bc = "Less") => calc.ac = "Less"
        /\ (calc.ab = "Equal") = calc.eq_ab

\* the range iterated, its shape, and the cells of its rectangle row by row
IterRange == iter.it.range
WellFormed(range) ==
    /\ rank(range.start.col) <= rank(range.end.col)
    /\ range.start.row <= range.end.row
Width(range) == rank(range.end.col) - rank(range.start.col) + 1
Height(range) == range.end.row - range.start.row + 1
RowMajor(range) ==
    [k \in 1..(Width(range) * Height(range)) |->
        [rank |-> rank(range.start.col) + ((k - 1) % Width(range)),
         row |-> range.start.row + ((k - 1) \div Width(range))]]
Coordinates(cell) == [rank |-> rank(cell.col), row |-> cell.row]

\* C19: iterating a well-formed range yields the cells of its rectangle once
\* each, row by row, width * height cells in all; next() then returns None,
\* and keeps returning None.
C19_IterationRowMajor ==
    (iter.state = "iterating" /\ WellFormed(IterRange)) =>
        /\ Len(iter.yielded) <= Width(IterRange) * Height(IterRange)
        /\ \A k \in 1..Len(iter.yielded) :
              k <= Width(IterRange) * Height(IterRange)
              /\ Coordinates(iter.yielded[k]) = RowMajor(IterRange)[k]
        /\ iter.ended =>
              /\ Len(iter.yielded) = Width(IterRange) * Height(IterRange)
              /\ iter.last = "None"

\* C20: iterating a range whose start column is after its end column, or
\* whose start row is after its end row, yields no cell.
C20_ImproperRangeEmpty ==
    (iter.state = "iterating" /\ ~WellFormed(IterRange)) => iter.yielded = << >>

B2D4 == A1Range_new(A1CellId_new(<< "B" >>, 2), A1CellId_new(<< "D" >>, 4))
A1C3 == A1Range_new(A1CellId_new(<< "A" >>, 1), A1CellId_new(<< "C" >>, 3))

\* C21: for every well-formed range, also one whose start column has two or
\* more letters, the zero-based range starts at A1 and has the same width and
\* height (B2:D4 becomes A1:C3).
C21_ZeroBaseKeepsShape ==
    (calc.fn = "A1Range::into_zero_base_range" /\ WellFormed(calc.range)) =>
        /\ IsOk(calc.out)
        /\ calc.out.v.start = A1CellId_new(<< "A" >>, 1)
        /\ Width(calc.out.v) = Width(calc.range)
        /\ Height(calc.out.v) = Height(calc.range)
        /\ calc.range = B2D4 => calc.out.v = A1C3

\* letters, then digits, at least one of each, and the digits not all zero
LettersThenNumber(value) ==
    \E k \in 1..(Len(value) - 1) :
        /\ \A i \in 1..k : is_alphabetic(value[i])
        /\ \A i \in (k + 1)..Len(value) : IsAsciiDigit(value[i])
        /\ \E i \in (k + 1)..Len(value) : value[i] # "0"

\* C22: a cell address parses exactly when it is letters followed by a positive
\* integer; every other text (row 0, digits before or between letters, no
\* letters, no digits) gives InvalidCellFormat, never a panic.
C22_CellParsing ==
    calc.fn = "A1CellId::try_from" =>
        IF LettersThenNumber(calc.value)
        THEN IsOk(calc.out) /\ A1CellId_to_string(calc.out.v) = calc.value
        ELSE calc.out = Err([kind |-> "InvalidCellFormat", input |-> calc.value])

\* the places of a character in a text; the text before and after place k
Places(value, ch) == { i \in 1..Len(value) : value[i] = ch }
TheOnly(S) == CHOOSE x \in S : TRUE
BeforePlace(value, k) == SubSeq(value, 1, k - 1)
AfterPlace(value, k) == SubSeq(value, k + 1, Len(value))
\* what parsing a bare range text must give
ExpectedRange(value, out) ==
    IF Cardinality(Places(value, ":")) # 1
    THEN out = Err([kind |-> "InvalidRangeFormat", input |-> value])
    ELSE LET k == TheOnly(Places(value, ":")) IN
         IF ~LettersThenNumber(BeforePlace(value, k)) \/ ~LettersThenNumber(AfterPlace(value, k))
         THEN IsErr(out) /\ out.e.kind = "CellParsingError"
         ELSE /\ IsOk(out)
              /\ A1CellId_to_string(out.v.start) = BeforePlace(value, k)
              /\ A1CellId_to_string(out.v.end) = AfterPlace(value, k)

C24_SheetRangeQuoted ==
    calc.fn = "SheetA1Range::to_string" =>
        /\ calc.text = << "'" >> \o calc.self.sheet \o << "'", "!" >>
                          \o A1Range_to_string(calc.self.range)
        /\ calc.parsed = Ok(calc.self)

\* C25: an A1 cell converted to a numeric cell and back is the same cell, and
\* a numeric cell converted to A1 and back is the same numeric cell; each axis
\* differs by exactly 1 (A1 is (0, 0), Z26 is (25, 25)).
C25_CellConversionLossless ==
    /\ calc.fn = "NumCellId::from" =>
          /\ calc.num.col = rank(calc.a1.col) - 1
          /\ calc.num.row = calc.a1.row - 1
          /\ calc.back = Ok(calc.a1)
          /\ calc.a1 = Z26 => calc.num = NumCellId_from_primitives(25, 25)
    /\ calc.fn = "A1CellId::from" =>
          /\ IsOk(calc.a1)
          /\ calc.back = Ok(calc.num)
          /\ calc.num = NumCellId_from_primitives(0, 0)
                => calc.a1.v = A1CellId_new(<< "A" >>, 1)

\* C26: subtracting from a Letters value a delta of its rank or more never
\* returns a Letters value: it panics, and with delta equal to the rank the
\* panic is 'Expected non-empty letters'.
C26_LettersSubUnderflow ==
    (calc.fn = "Letters::sub" /\ calc.delta >= rank(calc.l)) =>
        /\ IsPanic(calc.out)
        /\ calc.delta = rank(calc.l) => calc.out = Panic("Expected non-empty letters")

\* the u32 held as x is the number n, n at least 1
IsU32(x, n) == x >= 1 /\ x = n
\* the letters have rank n, n at least 1 (the ranks of the model have at most
\* three letters)
HasRank(l, n) == n >= 1 /\ Len(l) <= 3 /\ rank(l) = n

\* C27: delta(dc, dr) returns the cell whose column rank is rank(c.col) + dc
\* and whose row is c.row + dr, both at least 1, or it panics; it never
\* returns another cell, such as one with a wrapped-around row.
C27_DeltaShiftsOrFails ==
    calc.fn = "A1CellId::delta" =>
        \/ IsPanic(calc.out)
        \/ /\ IsOk(calc.out)
           /\ IsU32(calc.out.v.row, calc.cell.row + calc.rows)
           /\ HasRank(calc.out.v.col, rank(calc.cell.col) + calc.columns)

\* a caller that is not in a service call does not hold the lock
LockOnlyDuringCall == \A c \in Callers : holder = c => pc[c] = "calling"

\* C28: the lock is released when the service call of an operation returns,
\* with a result or an error; so every caller waiting for the lock gets to
\* make its call, and no caller waits for a lock it holds itself.
C28_LockReleasedAndProgress ==
    /\ [] LockOnlyDuringCall
    /\ \A c \in Callers : (pc[c] = "waiting") ~> (pc[c] = "calling")
C28_Witness ==
    \E c, d \in Callers :
        /\ c # d
        /\ pc[c] = "done" /\ response[c].tag = "Err" /\ IsErr(result[c])
        /\ pc[d] = "calling" /\ holder = d

\* the first row of the response that does not decode
FirstFailing(E, rows) ==
    CHOOSE i \in 1..Len(rows) :
        /\ ~IsOk(SheetRowSerde_deserialize(E, rows[i]))
        /\ \A k \in 1..(i - 1) : IsOk(SheetRowSerde_deserialize(E, rows[k]))

\* C29: when a row of the response does not decode, find_in_range returns a
\* ParsingError (that of the first such row) and no entities, whatever the
\* other rows are.
C29_AllOrNothingDecode ==
    \A c \in Callers : \A f \in EchoFixtures :
        (AnchoredAt(c, f) /\ ~AllDecode(args[c].E, Rows(c))) =>
            result[c] = Err(ParsingError(
                SheetRowSerde_deserialize(args[c].E,
                                          Rows(c)[FirstFailing(args[c].E, Rows(c))]).e))
C29_Witness ==
    \E c \in Callers : \E f \in EchoFixtures :
        /\ AnchoredAt(c, f)
        /\ Len(Rows(c)) = 2
        /\ IsOk(SheetRowSerde_deserialize(args[c].E, Rows(c)[1]))
        /\ ~IsOk(SheetRowSerde_deserialize(args[c].E, Rows(c)[2]))
        /\ IsErr(result[c]) /\ result[c].e.kind = "ParsingError"

\* the cells of the sheet that hold the entity at a position, and their values
EntityCells(position, width) ==
    { cell \in StoreCells :
        /\ cell.sheet = position.sheet_name
        /\ cell.row = position.cell.row
        /\ cell.col \in rank(position.cell.col)..(rank(position.cell.col) + width - 1) }
StoredRow(position, width) ==
    [j \in 1..width |->
        stored[[sheet |-> position.sheet_name,
                col |-> rank(position.cell.col) + j - 1,
                row |-> position.cell.row]]]
\* every entity row holds the values of before, or the whole row of one update
WholeRows ==
    \A position \in StoreInputs.starts :
        \/ \A cell \in EntityCells(position, entity_width(User)) : stored[cell] = OldValue
        \/ \E d \in DataOf(User) :
              StoredRow(position, entity_width(User)) = SheetRowSerde_serialize(d)
\* cells that belong to no entity keep their value
OutsideUntouched ==
    \A cell \in StoreCells :
        (\A position \in StoreInputs.starts :
            cell \notin EntityCells(position, entity_width(User)))
        => stored[cell] = OldValue
\* the update whose call returns with success leaves its own row stored, and
\* changes no cell outside that row
LastUpdateStored ==
    \A c \in Callers :
        (pc[c] = "calling" /\ pc'[c] = "done" /\ response'[c].tag = "Ok") =>
            /\ StoredRow(args[c].entity.position, entity_width(args[c].E))'
                 = SheetRowSerde_serialize(args[c].entity.data)
            /\ \A cell \in StoreCells :
                  cell \notin EntityCells(args[c].entity.position, entity_width(args[c].E))
                  => stored'[cell] = stored[cell]

====
